---- MODULE Spec2Model ----
(***************************************************************************)
(* Model of desktop/scripts/generate-icon.py: a straight-line script that  *)
(* draws the Breadcrumb placeholder icon on an in-memory RGBA canvas,      *)
(* resolves a font through a fallback chain, places the glyph "B", creates *)
(* the output directory, saves the PNG and prints a confirmation line.     *)
(***************************************************************************)
EXTENDS Integers, Naturals, Sequences, FiniteSets, TLC

(***************************************************************************)
(* Python float arithmetic (IEEE-754 binary64, round to nearest even).     *)
(* A non-negative float is [m |-> bits, e |-> exponent]: the bits are the  *)
(* significand, most significant first, at most Precision of them, and the *)
(* value is ToNat(m) * 2^e.  Zero has the empty significand.               *)
(***************************************************************************)
Precision == 53

\* extra quotient bits produced by the long division before rounding
DivBits == 64

\* the arithmetic on bit strings works on blocks of this many bits
Block == 15

RECURSIVE ToNat(_)
ToNat(bits) ==
    IF bits = <<>> THEN 0
    ELSE 2 * ToNat(SubSeq(bits, 1, Len(bits) - 1)) + bits[Len(bits)]

RECURSIVE FromNat(_)
FromNat(n) ==
    IF n = 0 THEN <<>> ELSE Append(FromNat(n \div 2), n % 2)

Zeros(n) == [i \in 1..n |-> 0]

StripLead(bits) ==
    IF \A i \in 1..Len(bits) : bits[i] = 0 THEN <<>>
    ELSE SubSeq(bits, CHOOSE i \in 1..Len(bits) :
                          bits[i] = 1 /\ \A j \in 1..(i - 1) : bits[j] = 0,
                Len(bits))

PadTo(bits, n) == Zeros(n - Len(bits)) \o bits

\* the k-bit string of n < 2^k
BitsOf(n, k) == PadTo(FromNat(n), k)

AnyOne(bits) == \E i \in 1..Len(bits) : bits[i] = 1

Max(a, b) == IF a > b THEN a ELSE b

\* the last k bits of a string, and the bits before them
Low(bits, k) == SubSeq(bits, Len(bits) - k + 1, Len(bits))
High(bits, k) == SubSeq(bits, 1, Len(bits) - k)

\* A + B + carry on bit strings of equal length, block by block from the low
\* end; the result is one bit longer
RECURSIVE AddBlocks(_, _, _)
AddBlocks(A, B, carry) ==
    IF Len(A) <= Block THEN BitsOf(ToNat(A) + ToNat(B) + carry, Len(A) + 1)
    ELSE AddBlocks(High(A, Block), High(B, Block),
                   (ToNat(Low(A, Block)) + ToNat(Low(B, Block)) + carry) \div 2^Block)
         \o BitsOf((ToNat(Low(A, Block)) + ToNat(Low(B, Block)) + carry) % 2^Block,
                   Block)

BitsAdd(A, B) ==
    AddBlocks(PadTo(A, Max(Len(A), Len(B))), PadTo(B, Max(Len(A), Len(B))), 0)

\* A - B - borrow on bit strings of equal length, A >= B
RECURSIVE SubBlocks(_, _, _)
SubBlocks(A, B, borrow) ==
    IF Len(A) <= Block THEN BitsOf(ToNat(A) - ToNat(B) - borrow, Len(A))
    ELSE SubBlocks(High(A, Block), High(B, Block),
                   IF ToNat(Low(A, Block)) - ToNat(Low(B, Block)) - borrow < 0
                   THEN 1 ELSE 0)
         \o BitsOf((ToNat(Low(A, Block)) - ToNat(Low(B, Block)) - borrow + 2^Block)
                       % 2^Block,
                   Block)

BitsSub(A, B) ==
    SubBlocks(PadTo(A, Max(Len(A), Len(B))), PadTo(B, Max(Len(A), Len(B))), 0)

\* k * B + carry for a factor k of at most one block
RECURSIVE MulBlocks(_, _, _)
MulBlocks(k, B, carry) ==
    IF Len(B) <= Block THEN BitsOf(k * ToNat(B) + carry, Len(B) + Block)
    ELSE MulBlocks(k, High(B, Block), (k * ToNat(Low(B, Block)) + carry) \div 2^Block)
         \o BitsOf((k * ToNat(Low(B, Block)) + carry) % 2^Block, Block)

\* A * B on bit strings; the shorter factor is at most one block long (the
\* script only multiplies a float by a small int)
BitsMul(A, B) ==
    IF Len(A) <= Len(B) THEN MulBlocks(ToNat(A), B, 0)
    ELSE MulBlocks(ToNat(B), A, 0)

\* floor(dividend / b) by long division, block by block from the high end,
\* for a divisor of at most one block; the result is <<bits, remainder>>
RECURSIVE LongDiv(_, _, _, _)
LongDiv(dividend, b, rem, acc) ==
    IF Len(dividend) <= Block
    THEN <<acc \o BitsOf((rem * 2^Len(dividend) + ToNat(dividend)) \div b,
                         Len(dividend)),
           (rem * 2^Len(dividend) + ToNat(dividend)) % b>>
    ELSE LongDiv(SubSeq(dividend, Block + 1, Len(dividend)), b,
                 (rem * 2^Block + ToNat(SubSeq(dividend, 1, Block))) % b,
                 acc \o BitsOf((rem * 2^Block + ToNat(SubSeq(dividend, 1, Block))) \div b,
                               Block))

\* round a significand of any length to Precision bits, nearest even;
\* sticky tells that non-zero bits were already dropped below the last one
Round(bits0, e, sticky) ==
    LET bits == StripLead(bits0)
        n    == Len(bits)
    IN  IF n <= Precision THEN [m |-> bits, e |-> e]
        ELSE LET keep  == SubSeq(bits, 1, Precision)
                 guard == bits[Precision + 1]
                 low   == sticky \/ AnyOne(SubSeq(bits, Precision + 2, n))
                 up    == guard = 1 /\ (low \/ keep[Precision] = 1)
                 inc   == StripLead(BitsAdd(keep, <<1>>))
                 kept  == IF up THEN inc ELSE keep
             IN  IF Len(kept) > Precision
                 THEN [m |-> SubSeq(kept, 1, Precision), e |-> e + (n - Precision) + 1]
                 ELSE [m |-> kept, e |-> e + (n - Precision)]

\* float(n) for a small non-negative int
FromInt(n) == Round(FromNat(n), 0, FALSE)

\* a / b on ints (Python true division, correctly rounded)
TrueDiv(a, b) ==
    LET q == LongDiv(FromNat(a) \o Zeros(DivBits), b, 0, <<>>)
    IN  Round(q[1], 0 - DivBits, q[2] # 0)

\* x - y on floats, x >= y >= 0
FSub(x, y) ==
    LET e0 == IF x.e < y.e THEN x.e ELSE y.e
        X  == x.m \o Zeros(x.e - e0)
        Y  == y.m \o Zeros(y.e - e0)
    IN  Round(BitsSub(X, Y), e0, FALSE)

\* x * y on floats
FMul(x, y) == Round(BitsMul(x.m, y.m), x.e + y.e, FALSE)

\* int(x): truncation toward zero of a non-negative float
Trunc(x) ==
    IF x.e >= 0 THEN ToNat(x.m \o Zeros(x.e))
    ELSE IF Len(x.m) <= 0 - x.e THEN 0
    ELSE ToNat(SubSeq(x.m, 1, Len(x.m) + x.e))

\* the float literals 0.5 and 0.15
Half == TrueDiv(5, 10)
FifteenHundredths == TrueDiv(15, 100)

(***************************************************************************)
(* Module-level constants of the script.                                   *)
(***************************************************************************)
SIZE == 1024

\* os.path.dirname(__file__): the script lives in desktop/scripts
ScriptDir == <<"desktop", "scripts">>

\* os.path.join(os.path.dirname(__file__), '..', 'assets', 'icon.png')
OUT == ScriptDir \o <<"..", "assets", "icon.png">>

\* os.path.dirname(path)
Dirname(path) == SubSeq(path, 1, Len(path) - 1)

\* the directory entry a path names once the filesystem resolves ".."
RECURSIVE Resolve(_)
Resolve(path) ==
    IF path = <<>> THEN <<>>
    ELSE LET front == Resolve(Dirname(path))
             name  == path[Len(path)]
         IN  IF name = ".." THEN Dirname(front) ELSE Append(front, name)

\* a path and all its ancestors
Ancestors(path) == {SubSeq(path, 1, n) : n \in 1..Len(path)}

bg_color == <<22, 22, 42, 255>>
accent == <<99, 102, 241, 255>>
accent_light == <<165, 180, 252, 255>>
radius == 200
line_color == <<99, 102, 241, 100>>
chevron_color == <<99, 102, 241, 60>>
b_color == <<255, 255, 255, 35>>
NoColor == <<>>

\* x, y, radius of the three breadcrumb dots
dots == <<(<<300, 680, 70>>), (<<512, 512, 55>>), (<<700, 360, 40>>)>>

\* for offset in [0, 35]
offsets == <<0, 35>>

\* the named font candidates, in the order the try blocks nest
Candidates == <<"SFCompact.ttf", "Helvetica.ttc">>
DefaultFont == "default"
NoFont == "none"
Fonts == {Candidates[i] : i \in 1..Len(Candidates)} \cup {DefaultFont}

\* glyph margins of the draw.text position
MarginRight == 160
MarginBottom == 140

\* the glow reaches GlowWidth pixels beyond the core: range(r + 30, r, -3)
GlowWidth == 30
GlowStep == 3

\* a glow alpha without the "1 -": int(40 * ((glow_r - r) / 30))
GlowAlphaOutward(glow_r, r) ==
    Trunc(FMul(FromInt(40), TrueDiv(glow_r - r, 30)))

\* alpha = int(40 * (1 - (glow_r - r) / 30))
GlowAlpha(glow_r, r) ==
    Trunc(FMul(FromInt(40), FSub(FromInt(1), TrueDiv(glow_r - r, 30))))

\* a glow loop that starts one step inside r + 30
GlowStartInside(r) == r + GlowWidth - GlowStep

\* the first value of range(r + 30, r, -3)
GlowStart(r) == r + GlowWidth

\* highlight_r = int(r * 0.5)
HighlightR(r) == Trunc(FMul(FromInt(r), Half))

\* int(r * 0.15)
HighlightLift(r) == Trunc(FMul(FromInt(r), FifteenHundredths))

(***************************************************************************)
(* Bounds of the model.                                                    *)
(***************************************************************************)
\* how many times the script is invoked in one behaviour
MaxRuns == 2

\* how many writes the PNG encoder issues for one image
MaxChunks == 2

\* the left/top offsets a measured glyph box may have
MaxBearing == 1

(***************************************************************************)
(* The environment: glyph boxes the font collaborator may report, and the  *)
(* contents the output path may hold.                                      *)
(***************************************************************************)
\* ink extent of the glyph "B" for each font (width, height)
GlyphExtent(f) ==
    IF f = DefaultFont THEN <<6, 11>>
    ELSE IF f = Candidates[1] THEN <<132, 158>>
    ELSE <<140, 160>>

\* draw.textbbox((0, 0), "B", font): (left, top, right, bottom); the left and
\* top offsets are the bearings the host's text layout gives the glyph, k
\* steps of (12, 47)
BBox(f, k) ==
    <<12 * k, 47 * k, 12 * k + GlyphExtent(f)[1], 47 * k + GlyphExtent(f)[2]>>

VARIABLES
    pc,        \* the statement the interpreter executes next
    img,       \* the canvas: mode, size and the draw calls applied to it
    dot,       \* index into dots of the for loop at line 43
    glow_r,    \* loop variable of the glow loop at line 45
    chev,      \* index into offsets of the for loop at line 71
    font,      \* the resolved font
    tried,     \* the truetype loads attempted so far, in order
    bbox,      \* the measured box of the glyph
    avail,     \* the candidate fonts present on the host at this run
    bearing,   \* the bearing step of the host's text layout
    dirs,      \* the directories that exist
    files,     \* the files that exist, with their content
    fp,        \* the open output file of img.save
    stdout,    \* the lines printed by this run
    status,    \* the exit status of this run
    failure,   \* the statement whose exception ended this run
    run,       \* how many runs were started
    last       \* the previous run's status and fonts, and the filesystem it left
               \* behind, which is the one this run started from

vars == <<pc, img, dot, glow_r, chev, font, tried, bbox, avail, bearing,
          dirs, files, fp, stdout, status, failure, run, last>>

canvasVars == <<img, dot, glow_r, chev>>
fontVars == <<font, tried, bbox, avail, bearing>>
fsVars == <<dirs, files, fp>>
procVars == <<stdout, status, failure, run, last>>

NoImage == [mode |-> "none", size |-> <<0, 0>>, calls |-> <<>>]
NoBox == <<0, 0, 0, 0>>
NoFile == [created |-> FALSE, written |-> 0]
Running == -1

\* a file content: the image being encoded and how many of its chunks are on disk
Content(image, n) == [image |-> image, chunks |-> n]

\* the PNG encoding of a canvas, complete
Encode(image) == Content(image, MaxChunks)

\* a file some earlier tool left at the output path
StaleIcon == Encode([mode |-> "RGBA", size |-> <<512, 512>>, calls |-> <<>>])

OutDir == Resolve(Dirname(OUT))
OutFile == Resolve(OUT)

\* one ImageDraw call
Call(elem, d, shape, xy, fill, outline, width, rad, f) ==
    [elem |-> elem, dot |-> d, shape |-> shape, xy |-> xy, fill |-> fill,
     outline |-> outline, width |-> width, radius |-> rad, font |-> f]

\* a canvas that puts each new call under the earlier ones
DrawUnder(call) == [img EXCEPT !.calls = <<call>> \o @]

\* a draw call composites over everything drawn before it
Draw(call) == [img EXCEPT !.calls = Append(@, call)]

(***************************************************************************)
(* Initial state: the process has started and no statement has run.  The   *)
(* script's own directory exists; the assets directory and the icon may or *)
(* may not.                                                                *)
(***************************************************************************)
Init ==
    /\ pc = "new"
    /\ img = NoImage
    /\ dot = 0
    /\ glow_r = 0
    /\ chev = 0
    /\ font = NoFont
    /\ tried = <<>>
    /\ bbox = NoBox
    /\ avail \in SUBSET {Candidates[i] : i \in 1..Len(Candidates)}
    /\ bearing \in 0..MaxBearing
    /\ \E present \in BOOLEAN :
          dirs = Ancestors(ScriptDir) \cup (IF present THEN {OutDir} ELSE {})
    /\ files \in {<<>>} \cup (IF OutDir \in dirs THEN {OutFile :> StaleIcon} ELSE {})
    /\ fp = NoFile
    /\ stdout = <<>>
    /\ status = Running
    /\ failure = "none"
    /\ run = 1
    /\ last = [status |-> Running, avail |-> {}, dirs |-> dirs, files |-> files]

(***************************************************************************)
(* Lines 10-11: img = Image.new('RGBA', (SIZE, SIZE), (0, 0, 0, 0))        *)
(***************************************************************************)
\* a canvas that starts from the icon already on disk
NewImageFromFile ==
    /\ pc = "new"
    /\ img' = IF OutFile \in DOMAIN files
              THEN [files[OutFile].image EXCEPT !.size = <<SIZE, SIZE>>, !.mode = "RGBA"]
              ELSE [mode |-> "RGBA", size |-> <<SIZE, SIZE>>, calls |-> <<>>]
    /\ pc' = "background"
    /\ UNCHANGED <<dot, glow_r, chev, fontVars, fsVars, procVars>>

NewImage ==
    /\ pc = "new"
    /\ img' = [mode |-> "RGBA", size |-> <<SIZE, SIZE>>, calls |-> <<>>]
    /\ pc' = "background"
    /\ UNCHANGED <<dot, glow_r, chev, fontVars, fsVars, procVars>>

(***************************************************************************)
(* Lines 21-25: the rounded rectangle background                           *)
(***************************************************************************)
DrawBackground ==
    /\ pc = "background"
    /\ img' = Draw(Call("background", 0, "rounded_rectangle",
                        <<40, 40, SIZE - 40, SIZE - 40>>,
                        bg_color, NoColor, 0, radius, NoFont))
    /\ pc' = "border"
    /\ UNCHANGED <<dot, glow_r, chev, fontVars, fsVars, procVars>>

(***************************************************************************)
(* Lines 28-33: the subtle inner border                                    *)
(***************************************************************************)
DrawBorder ==
    /\ pc = "border"
    /\ img' = Draw(Call("border", 0, "rounded_rectangle",
                        <<44, 44, SIZE - 44, SIZE - 44>>,
                        NoColor, <<255, 255, 255, 20>>, 2, radius - 4, NoFont))
    /\ pc' = "dots"
    /\ UNCHANGED <<dot, glow_r, chev, fontVars, fsVars, procVars>>

(***************************************************************************)
(* Line 43: for x, y, r in dots -- take the next dot or leave the loop;    *)
(* entering the body starts range(r + 30, r, -3) of line 45                *)
(***************************************************************************)
NextDot ==
    /\ pc = "dots"
    /\ IF dot < Len(dots)
       THEN /\ dot' = dot + 1
            /\ glow_r' = GlowStart(dots[dot + 1][3])
            /\ pc' = "glow"
       ELSE /\ pc' = "line1"
            /\ UNCHANGED <<dot, glow_r>>
    /\ UNCHANGED <<img, chev, fontVars, fsVars, procVars>>

(***************************************************************************)
(* Lines 45-50: one iteration of the glow loop, or its exit                *)
(***************************************************************************)
DrawGlow ==
    /\ pc = "glow"
    /\ LET x == dots[dot][1]
           y == dots[dot][2]
           r == dots[dot][3]
       IN  IF glow_r > r
           THEN /\ img' = Draw(Call("glow", dot, "ellipse",
                                    <<x - glow_r, y - glow_r, x + glow_r, y + glow_r>>,
                                    <<99, 102, 241, GlowAlpha(glow_r, r)>>,
                                    NoColor, 0, 0, NoFont))
                /\ glow_r' = glow_r - GlowStep
                /\ pc' = "glow"
           ELSE /\ pc' = "core"
                /\ UNCHANGED <<img, glow_r>>
    /\ UNCHANGED <<dot, chev, fontVars, fsVars, procVars>>

(***************************************************************************)
(* Lines 52-55: the solid dot                                              *)
(***************************************************************************)
DrawCore ==
    /\ pc = "core"
    /\ LET x == dots[dot][1]
           y == dots[dot][2]
           r == dots[dot][3]
       IN  img' = Draw(Call("core", dot, "ellipse",
                            <<x - r, y - r, x + r, y + r>>,
                            accent, NoColor, 0, 0, NoFont))
    /\ pc' = "highlight"
    /\ UNCHANGED <<dot, glow_r, chev, fontVars, fsVars, procVars>>

(***************************************************************************)
(* Lines 57-62: the inner highlight; the loop body ends                    *)
(***************************************************************************)
DrawHighlight ==
    /\ pc = "highlight"
    /\ LET x == dots[dot][1]
           y == dots[dot][2]
           r == dots[dot][3]
           highlight_r == HighlightR(r)
       IN  img' = Draw(Call("highlight", dot, "ellipse",
                            <<x - highlight_r, y - highlight_r - HighlightLift(r),
                              x + highlight_r, y + highlight_r - HighlightLift(r)>>,
                            accent_light, NoColor, 0, 0, NoFont))
    /\ pc' = "dots"
    /\ UNCHANGED <<dot, glow_r, chev, fontVars, fsVars, procVars>>

(***************************************************************************)
(* Lines 66-67: the connecting lines                                       *)
(***************************************************************************)
DrawLine1 ==
    /\ pc = "line1"
    /\ img' = Draw(Call("line", 0, "line", <<300, 680, 512, 512>>,
                        line_color, NoColor, 8, 0, NoFont))
    /\ pc' = "line2"
    /\ UNCHANGED <<dot, glow_r, chev, fontVars, fsVars, procVars>>

DrawLine2 ==
    /\ pc = "line2"
    /\ img' = Draw(Call("line", 0, "line", <<512, 512, 700, 360>>,
                        line_color, NoColor, 6, 0, NoFont))
    /\ pc' = "chevrons"
    /\ UNCHANGED <<dot, glow_r, chev, fontVars, fsVars, procVars>>

(***************************************************************************)
(* Lines 71-74: for offset in [0, 35] -- one chevron, or the loop's exit   *)
(***************************************************************************)
DrawChevron ==
    /\ pc = "chevrons"
    /\ IF chev < Len(offsets)
       THEN LET offset == offsets[chev + 1]
                cx == 770 + offset
                cy == 305 - offset \div 2
            IN  /\ img' = Draw(Call("chevron", 0, "line",
                                    <<cx, cy - 15, cx + 15, cy, cx, cy + 15>>,
                                    chevron_color, NoColor, 4, 0, NoFont))
                /\ chev' = chev + 1
                /\ pc' = "chevrons"
       ELSE /\ pc' = "font1"
            /\ UNCHANGED <<img, chev>>
    /\ UNCHANGED <<dot, glow_r, fontVars, fsVars, procVars>>

\* an exception that a blanket handler swallows before the print
RaiseSwallowed(stmt) ==
    /\ pc' = "print"
    /\ failure' = stmt
    /\ UNCHANGED <<stdout, status, run, last>>

\* an uncaught exception: the interpreter prints a traceback to stderr and
\* exits with status 1
Raise(stmt) ==
    /\ pc' = "exit"
    /\ status' = 1
    /\ failure' = stmt
    /\ UNCHANGED <<stdout, run, last>>

(***************************************************************************)
(* Lines 77-83: the font fallback chain.  ImageFont.truetype raises        *)
(* OSError when the file is not on the host; load_default always returns.  *)
(***************************************************************************)
\* a load that succeeds whenever any candidate is on the host
LoadsAny(name) == avail # {}

\* ImageFont.truetype(path, 220) returns a font
Loads(name) == name \in avail

LoadFont1 ==
    /\ pc = "font1"
    /\ tried' = Append(tried, Candidates[1])
    /\ IF Loads(Candidates[1])
       THEN /\ font' = Candidates[1]
            /\ pc' = "bbox"
       ELSE /\ pc' = "font2"
            /\ UNCHANGED font
    /\ UNCHANGED <<canvasVars, bbox, avail, bearing, fsVars, procVars>>

LoadFont2 ==
    /\ pc = "font2"
    /\ tried' = Append(tried, Candidates[2])
    /\ IF Loads(Candidates[2])
       THEN /\ font' = Candidates[2]
            /\ pc' = "bbox"
       ELSE /\ pc' = "default"
            /\ UNCHANGED font
    /\ UNCHANGED <<canvasVars, bbox, avail, bearing, fsVars, procVars>>

\* a last resort that raises like the named candidates do
LoadDefaultRaises ==
    /\ pc = "default"
    /\ Raise("load_default")
    /\ UNCHANGED <<canvasVars, fontVars, fsVars>>

LoadDefault ==
    /\ pc = "default"
    /\ font' = DefaultFont
    /\ pc' = "bbox"
    /\ UNCHANGED <<canvasVars, tried, bbox, avail, bearing, fsVars, procVars>>

(***************************************************************************)
(* Line 87: bbox = draw.textbbox((0, 0), "B", font=font).  A font reports  *)
(* the same box every time it is measured.                                 *)
(***************************************************************************)
MeasureGlyph ==
    /\ pc = "bbox"
    /\ bbox' = BBox(font, bearing)
    /\ pc' = "text"
    /\ UNCHANGED <<canvasVars, font, tried, avail, bearing, fsVars, procVars>>

\* lines 88-90: bw, bh and the position handed to draw.text
TextPosition(box) ==
    LET bw == box[3] - box[1]
        bh == box[4] - box[2]
    IN  <<SIZE - bw - MarginRight, SIZE - bh - MarginBottom>>

(***************************************************************************)
(* Lines 89-94: draw.text                                                  *)
(***************************************************************************)
DrawText ==
    /\ pc = "text"
    /\ img' = Draw(Call("glyph", 0, "text", TextPosition(bbox),
                        b_color, NoColor, 0, 0, font))
    /\ pc' = "makedirs"
    /\ UNCHANGED <<dot, glow_r, chev, fontVars, fsVars, procVars>>

(***************************************************************************)
(* Line 96: os.makedirs(os.path.dirname(OUT), exist_ok=True)               *)
(***************************************************************************)
\* a script that goes on to save without creating the directory
MakeDirsSkipped ==
    /\ pc = "makedirs"
    /\ pc' = "save"
    /\ UNCHANGED <<canvasVars, fontVars, fsVars, procVars>>

MakeDirs ==
    /\ pc = "makedirs"
    /\ \E ok \in BOOLEAN :
          IF ok
          THEN /\ dirs' = dirs \cup Ancestors(OutDir)
               /\ pc' = "save"
               /\ UNCHANGED procVars
          ELSE /\ Raise("makedirs")
               /\ UNCHANGED dirs
    /\ UNCHANGED <<canvasVars, fontVars, files, fp>>

(***************************************************************************)
(* Line 97: img.save(OUT, 'PNG').  The library opens the path for writing, *)
(* which creates or truncates the file, then the encoder writes the image  *)
(* chunk by chunk into it.                                                 *)
(***************************************************************************)
\* an encoder whose last chunk never reaches the file
WrittenShort(image, n) == Content(image, IF n = MaxChunks THEN n - 1 ELSE n)

\* what the path holds once n chunks of the canvas are written
Written(image, n) == Content(image, n)

SaveOpen ==
    /\ pc = "save"
    /\ \E ok \in BOOLEAN :
          IF ok /\ OutDir \in dirs
          THEN /\ fp' = [created |-> OutFile \notin DOMAIN files, written |-> 0]
               /\ files' = (OutFile :> Written(img, 0)) @@ files
               /\ pc' = "write"
               /\ UNCHANGED procVars
          ELSE /\ Raise("save")
               /\ UNCHANGED <<files, fp>>
    /\ UNCHANGED <<canvasVars, fontVars, dirs>>

\* the files left behind when the encoder raises: the library closes the
\* file and, depending on its version, removes a file it had created
AfterFailedSave(remove) ==
    IF remove /\ fp.created
    THEN [p \in DOMAIN files \ {OutFile} |-> files[p]]
    ELSE files

SaveWrite ==
    /\ pc = "write"
    /\ \E ok \in BOOLEAN, remove \in BOOLEAN :
          IF ok
          THEN /\ fp' = [fp EXCEPT !.written = @ + 1]
               /\ files' = [files EXCEPT ![OutFile] = Written(img, fp.written + 1)]
               /\ pc' = IF fp.written + 1 = MaxChunks THEN "print" ELSE "write"
               /\ UNCHANGED procVars
          ELSE /\ Raise("save")
               /\ files' = AfterFailedSave(remove)
               /\ fp' = NoFile
    /\ UNCHANGED <<canvasVars, fontVars, dirs>>

\* a path as os.path.join writes it
RECURSIVE PathString(_)
PathString(path) ==
    IF Len(path) = 1 THEN path[1]
    ELSE PathString(Dirname(path)) \o "/" \o path[Len(path)]

\* f"Icon saved to {OUT} ({SIZE}x{SIZE})", as its pieces
Confirmation ==
    <<"Icon saved to ", PathString(OUT), " (", ToString(SIZE), "x", ToString(SIZE), ")">>

(***************************************************************************)
(* Line 98: print; the script ends and the process exits with status 0     *)
(***************************************************************************)
PrintSaved ==
    /\ pc = "print"
    /\ stdout' = Append(stdout, Confirmation)
    /\ status' = 0
    /\ pc' = "exit"
    /\ fp' = NoFile
    /\ UNCHANGED <<canvasVars, fontVars, dirs, files, failure, run, last>>

(***************************************************************************)
(* The script is invoked again: a fresh process, the filesystem as the     *)
(* previous run left it, the host's fonts possibly changed.                *)
(***************************************************************************)
Rerun ==
    /\ pc = "exit"
    /\ run < MaxRuns
    /\ last' = [status |-> status, avail |-> avail, dirs |-> dirs, files |-> files]
    /\ run' = run + 1
    /\ avail' \in SUBSET {Candidates[i] : i \in 1..Len(Candidates)}
    /\ pc' = "new"
    /\ img' = NoImage
    /\ dot' = 0
    /\ glow_r' = 0
    /\ chev' = 0
    /\ font' = NoFont
    /\ tried' = <<>>
    /\ bbox' = NoBox
    /\ stdout' = <<>>
    /\ status' = Running
    /\ failure' = "none"
    /\ UNCHANGED <<bearing, fsVars>>

Next ==
    \/ NewImage
    \/ DrawBackground
    \/ DrawBorder
    \/ NextDot
    \/ DrawGlow
    \/ DrawCore
    \/ DrawHighlight
    \/ DrawLine1
    \/ DrawLine2
    \/ DrawChevron
    \/ LoadFont1
    \/ LoadFont2
    \/ LoadDefault
    \/ MeasureGlyph
    \/ DrawText
    \/ MakeDirs
    \/ SaveOpen
    \/ SaveWrite
    \/ PrintSaved
    \/ Rerun

Spec == Init /\ [][Next]_vars

(***************************************************************************)
(* Properties.                                                             *)
(***************************************************************************)
calls == img.calls
Indices(elems) == {i \in 1..Len(calls) : calls[i].elem \in elems}
GlowsOf(d) == {i \in 1..Len(calls) : calls[i].elem = "glow" /\ calls[i].dot = d}
RadiusOf(call) == (call.xy[3] - call.xy[1]) \div 2
AlphaOf(call) == call.fill[4]
Succeeded == pc = "exit" /\ status = 0
Contains(line, a, b, c) ==
    \E i \in 1..(Len(line) - 2) : line[i] = a /\ line[i + 1] = b /\ line[i + 2] = c
IconPath == Dirname(ScriptDir) \o <<"assets", "icon.png">>
AllCalls == Len(dots) * (GlowWidth \div GlowStep + 2) + 2 + 2 + Len(offsets) + 1

\* C1: font resolution never ends the run: an ended run has failed only in
\* makedirs or in save, past the font chain every run holds a font (the
\* built-in default when no candidate is on the host), and a run that ended
\* with status 0 has written a 1024x1024 image to the output path and printed
\* exactly one line, which contains "1024x1024".
C1_FontNeverFatal ==
    /\ status # Running => pc = "exit" /\ status \in {0, 1}
    /\ status = 1 => failure \in {"makedirs", "save"}
    /\ pc \in {"bbox", "text", "makedirs", "save", "write", "print", "exit"} =>
          /\ font \in Fonts
          /\ avail = {} => font = DefaultFont
    /\ Succeeded =>
          /\ font \in Fonts
          /\ OutFile \in DOMAIN files
          /\ files[OutFile] = Encode(img)
          /\ files[OutFile].image.size = <<1024, 1024>>
          /\ Len(stdout) = 1
          /\ Contains(stdout[1], "1024", "x", "1024")

C1_Witness == Succeeded /\ avail = {} /\ font = DefaultFont /\ Len(stdout) = 1

\* C2 as claimed: at every point the output path holds its previous content
\* (or nothing) or the complete newly encoded image.
C2_AtomicWrite ==
    \/ files = last.files
    \/ OutFile \notin DOMAIN files
    \/ files[OutFile] = Encode(img)

\* C2 amended: the image is fully composed before the output path is touched:
\* until save has opened the file the path holds its previous content; what
\* save puts there are chunks of the finished canvas; after a save that
\* succeeded the path holds the complete encoding.
C2_ComposedBeforeWrite ==
    /\ pc \notin {"write", "print", "exit"} => files = last.files
    /\ files # last.files /\ OutFile \in DOMAIN files =>
          /\ Len(calls) = AllCalls
          /\ files[OutFile].image = img
          /\ files[OutFile].chunks \in 0..MaxChunks
    /\ pc = "print" \/ Succeeded =>
          OutFile \in DOMAIN files /\ files[OutFile] = Encode(img)

C2_Witness ==
    /\ pc = "exit" /\ failure = "save"
    /\ OutFile \in DOMAIN files
    /\ files[OutFile].image = img
    /\ files[OutFile].chunks < MaxChunks

\* C3: in a run that started without the output directory, the directory
\* exists from the moment save is reached, so before the file is opened, and
\* a run that ended with status 0 leaves the directory and the file at
\* ../assets/icon.png relative to the script's directory.
C3_DirectoryThenFile ==
    OutDir \notin last.dirs =>
        /\ pc \in {"save", "write", "print"} => OutDir \in dirs
        /\ OutFile \in DOMAIN files => OutDir \in dirs
        /\ Succeeded =>
              /\ OutDir \in dirs
              /\ IconPath \in DOMAIN files
              /\ files[IconPath].chunks = MaxChunks

C3_Witness == Succeeded /\ OutDir \notin last.dirs /\ IconPath \in DOMAIN files

\* C4: a failure of makedirs or save ends the run at once with a non-zero
\* status: nothing is printed, a failed makedirs leaves the file untouched,
\* and a confirmation line is printed only after a save that succeeded.
C4_FailureIsFatal ==
    /\ failure # "none" => pc = "exit" /\ status = 1 /\ stdout = <<>>
    /\ status = 1 => failure \in {"makedirs", "save"}
    /\ failure = "makedirs" => files = last.files /\ fp = NoFile
    /\ stdout # <<>> =>
          /\ status = 0
          /\ failure = "none"
          /\ OutFile \in DOMAIN files
          /\ files[OutFile] = Encode(img)

C4_Witness ==
    /\ pc = "exit" /\ status = 1 /\ failure = "makedirs" /\ stdout = <<>>
    /\ Len(calls) = AllCalls

\* C5: every glow circle of every dot has its radius among r+3, r+6, ..., r+30
\* and an alpha in [0, 40], and of two glow circles of one dot the larger one
\* never has the larger alpha.
C5_GlowAlphaRange ==
    \A d \in 1..Len(dots) :
        \A i \in GlowsOf(d) :
            /\ RadiusOf(calls[i]) - dots[d][3] \in {GlowStep * k : k \in 1..(GlowWidth \div GlowStep)}
            /\ AlphaOf(calls[i]) \in 0..40
            /\ \A j \in GlowsOf(d) :
                  RadiusOf(calls[i]) >= RadiusOf(calls[j]) =>
                      AlphaOf(calls[i]) <= AlphaOf(calls[j])

C5_Witness ==
    /\ pc = "line1"
    /\ \A d \in 1..Len(dots) : Cardinality(GlowsOf(d)) = GlowWidth \div GlowStep
    /\ \E i, j \in GlowsOf(3) : AlphaOf(calls[i]) < AlphaOf(calls[j])

\* C6: when two consecutive runs both end with status 0 and saw the same
\* candidate fonts on the host, the second, which started from the directory
\* and the file the first one left, leaves exactly the file content the first
\* one left, and that content is the encoding of its own freshly drawn canvas.
C6_RerunIdempotent ==
    Succeeded /\ run > 1 /\ last.status = 0 /\ last.avail = avail =>
        /\ OutDir \in last.dirs
        /\ OutFile \in DOMAIN last.files
        /\ files = last.files
        /\ files[OutFile] = Encode(img)
        /\ Len(calls) = AllCalls

C6_Witness ==
    /\ Succeeded /\ run > 1 /\ last.status = 0 /\ last.avail = avail
    /\ OutFile \in DOMAIN last.files
    /\ files[OutFile].image.calls # <<>>

\* the position of an element in the fixed drawing order
Layer(call) ==
    CASE call.elem = "background" -> 1
      [] call.elem = "border" -> 2
      [] call.elem \in {"glow", "core", "highlight"} -> 3
      [] call.elem = "line" -> 4
      [] call.elem = "chevron" -> 5
      [] call.elem = "glyph" -> 6

\* the position of a dot's call within the dot
Part(call) ==
    CASE call.elem = "glow" -> 1
      [] call.elem = "core" -> 2
      [] call.elem = "highlight" -> 3
      [] OTHER -> 0

\* C7: the draw order is fixed: the background is the first call and the only
\* one of its kind, the border comes before every dot, within a dot every
\* glow circle comes before the core and the core before the highlight, both
\* lines and all three complete dots come before either chevron, and the
\* glyph, once drawn, is the last call, with every other element under it.
C7_DrawOrder ==
    /\ \A i \in 1..(Len(calls) - 1) :
          /\ Layer(calls[i]) <= Layer(calls[i + 1])
          /\ calls[i + 1].elem \in {"background", "border", "glyph"} =>
                Layer(calls[i]) < Layer(calls[i + 1])
          /\ Layer(calls[i]) = 3 /\ Layer(calls[i + 1]) = 3 =>
                /\ calls[i].dot <= calls[i + 1].dot
                /\ calls[i].dot = calls[i + 1].dot =>
                      /\ Part(calls[i]) <= Part(calls[i + 1])
                      /\ Part(calls[i]) = Part(calls[i + 1]) => calls[i].elem = "glow"
                /\ calls[i].dot < calls[i + 1].dot =>
                      calls[i].elem = "highlight" /\ calls[i + 1].elem = "glow"
    /\ calls # <<>> => calls[1].elem = "background"
    /\ Indices({"glow", "core", "highlight"}) # {} => Indices({"border"}) # {}
    /\ Indices({"core"}) # {} => Indices({"glow"}) # {}
    /\ Indices({"chevron"}) # {} =>
          /\ Cardinality(Indices({"line"})) = 2
          /\ Cardinality(Indices({"core"})) = Len(dots)
          /\ Cardinality(Indices({"highlight"})) = Len(dots)
          /\ Cardinality(Indices({"glow"})) = Len(dots) * (GlowWidth \div GlowStep)
    /\ Indices({"glyph"}) # {} =>
          /\ Indices({"glyph"}) = {Len(calls)}
          /\ Len(calls) = AllCalls
          /\ Cardinality(Indices({"chevron"})) = Len(offsets)

C7_Witness ==
    /\ pc = "makedirs"
    /\ Len(calls) = AllCalls
    /\ calls[Len(calls)].elem = "glyph"
    /\ calls[1].elem = "background"

\* C8: the candidates are tried in the order SFCompact.ttf, Helvetica.ttc and
\* the chain stops at the first that loads: the loads attempted are a prefix
\* of the candidate list, the resolved font is the first candidate on the
\* host and the last one attempted, and the built-in default is the resolved
\* font exactly when no candidate is on the host.
C8_FontFallbackOrder ==
    /\ Candidates = <<"SFCompact.ttf", "Helvetica.ttc">>
    /\ Len(tried) <= Len(Candidates)
    /\ tried = SubSeq(Candidates, 1, Len(tried))
    /\ \A i \in 1..(Len(tried) - 1) : tried[i] \notin avail
    /\ font # NoFont =>
          /\ font \in Fonts
          /\ font # DefaultFont =>
                /\ font \in avail
                /\ tried # <<>> /\ font = tried[Len(tried)]
          /\ font = DefaultFont <=> avail = {}
          /\ font = DefaultFont => tried = Candidates

C8_Witness ==
    /\ font = Candidates[2]
    /\ tried = Candidates
    /\ Candidates[1] \notin avail

\* the glyph call on the canvas, and the box its ink covers: the box measured
\* at the origin, moved to the position the glyph was drawn at
GlyphDrawn == Indices({"glyph"}) # {}
GlyphCall == calls[CHOOSE i \in Indices({"glyph"}) : TRUE]
InkRight == GlyphCall.xy[1] + bbox[3]
InkBottom == GlyphCall.xy[2] + bbox[4]

\* C9 as claimed: whatever box the measurement returned, the drawn glyph has
\* its right edge 160 pixels left of the canvas's right edge and its bottom
\* edge 140 pixels above the canvas's bottom edge.
C9_GlyphAligned ==
    GlyphDrawn => InkRight = SIZE - 160 /\ InkBottom = SIZE - 140

\* the exact value of 40 * (1 - d / 30)
Linear(d) == (40 * (GlowWidth - d)) \div GlowWidth
About(a, b) == a - b \in -4..4

\* C10 as claimed: the glow circles of a dot are drawn shrinking from r+30,
\* and their alpha starts at about 40 on the outermost circle and does not
\* grow from one circle to the next, smaller, one.
C10_AlphaFallsTowardCore ==
    \A d \in 1..Len(dots) :
        \A i \in GlowsOf(d) :
            /\ RadiusOf(calls[i]) = dots[d][3] + GlowWidth => About(AlphaOf(calls[i]), 40)
            /\ \A j \in GlowsOf(d) :
                  i < j => /\ RadiusOf(calls[i]) > RadiusOf(calls[j])
                           /\ AlphaOf(calls[i]) >= AlphaOf(calls[j])

\* C10 amended: the glow circles of a dot are drawn shrinking in steps of 3
\* from r+30 down to r+3 (the core radius itself is not a glow circle), and
\* their alpha is the linear value 40 * (1 - (glow_r - r) / 30), or one less
\* where the float product falls just short of it: 0 on the outermost circle,
\* rising to 36 on the innermost.
C10_AlphaRisesTowardCore ==
    \A d \in 1..Len(dots) :
        /\ \A i \in GlowsOf(d) :
              /\ i - 1 \notin GlowsOf(d) => RadiusOf(calls[i]) = dots[d][3] + GlowWidth
              /\ i - 1 \in GlowsOf(d) =>
                    RadiusOf(calls[i]) = RadiusOf(calls[i - 1]) - GlowStep
              /\ RadiusOf(calls[i]) > dots[d][3]
              /\ AlphaOf(calls[i]) \in
                    {Linear(RadiusOf(calls[i]) - dots[d][3]),
                     Linear(RadiusOf(calls[i]) - dots[d][3]) - 1} \cap 0..40
              /\ RadiusOf(calls[i]) = dots[d][3] + GlowWidth => AlphaOf(calls[i]) = 0
              /\ RadiusOf(calls[i]) = dots[d][3] + GlowStep => AlphaOf(calls[i]) = 36
        /\ (\E i \in 1..Len(calls) : calls[i].elem = "core" /\ calls[i].dot = d) =>
              {RadiusOf(calls[i]) : i \in GlowsOf(d)} =
                  {dots[d][3] + GlowStep * k : k \in 1..(GlowWidth \div GlowStep)}

C10_Witness ==
    /\ pc = "highlight" /\ dot = 2
    /\ \E i \in GlowsOf(2) : RadiusOf(calls[i]) = 58 /\ AlphaOf(calls[i]) = 36
    /\ \E i \in GlowsOf(2) : RadiusOf(calls[i]) = 82 /\ AlphaOf(calls[i]) = 3

====
